---- MODULE Spec2Model ----
(***************************************************************************)
(* hstratum (lib/index.js): the Connection, ClientPacket framing and Job   *)
(* classes as a state machine.                                             *)
(*                                                                         *)
(* A connection is one record of the function conns.  Every method of     *)
(* Connection is an operator from a connection record to the record after *)
(* the call (destroy, write, send, error, redirect, feed, ...); the        *)
(* actions below are the events that call them: a socket event, a public  *)
(* method called by the server, or the resumption of an async function at *)
(* one of its awaits.                                                      *)
(*                                                                         *)
(* Text is a sequence of tokens.  A token is one character ("n" is \n,     *)
(* "r" is \r, "x" a letter) or a run of characters that is never cut       *)
(* ("a1" is {"method":" , "a2" is "} , "h1" is HTTP/ , "h2" is 1.1 ,       *)
(* "B" is BigRun letters).  Bytes are the same tokens, plus "m1" and "m2", *)
(* the lead and continuation byte of one two-byte UTF-8 character, which   *)
(* decodes to the character "e"; "u" is U+FFFD.                            *)
(***************************************************************************)
EXTENDS Integers, Sequences, FiniteSets, TLC

\* ------------------------------------------------------------------ bounds

\* Packets one connection may emit, feed() calls, socket writes and error
\* reports per connection that the model follows.
MaxPackets == 2
MaxFeeds == 2
MaxWrites == 1
MaxErrors == 1
\* Job.insert calls per job, and the fingerprints 1..MaxHash.
MaxInserts == 2
MaxHash == 2
\* Job.commit calls per job.
MaxCommits == 2
\* The configured shares-per-minute target, the decision points between two
\* jobs, and the jobs sent, per connection.
SharesPerMinute == 2
MaxDecisions == 1
MaxJobs == 2
\* The minutes of paced shares, and the shares off the pace, in SpecPaced.
PacedMinutes == 12
MaxLate == 1
\* send() calls per connection in SpecDrain.
MaxSends == 3
\* The configured ban threshold BAN_SCORE, in points, and the increaseBan
\* calls per connection in SpecBan.
BanScore == 100
MaxPenalties == 3
MaxCut == 3

\* ------------------------------------------------------- program constants

\* feed(): if (this.recv.length >= 100000)
RecvLimit == 100000
\* write(): if (this.drainSize > 5 << 20)
DrainLimit == 5242880
\* retarget(): the width of the hysteresis band, in ms
Hysteresis == 5000
\* retarget(): one minute, in ms
Minute == 60000
\* constants.NONCE_SIZE
NonceSize == 4

\* The connections of the model; connections share no state.  Spec follows
\* one of them through every event, SpecPair follows two through the events
\* of packet handling.
Conns == {"c1", "c2"}
Solo == {"c1"}

\* ------------------------------------------------------------------- text

BigRun == RecvLimit \div 2

TokLen(t) ==
  CASE t = "a1" -> 11
    [] t = "a2" -> 2
    [] t = "h1" -> 5
    [] t = "h2" -> 3
    [] t = "B" -> BigRun
    [] OTHER -> 1

RECURSIVE StrLen(_)
StrLen(s) == IF s = <<>> THEN 0 ELSE TokLen(Head(s)) + StrLen(Tail(s))

Last(s) == s[Len(s)]
Front(s) == SubSeq(s, 1, Len(s) - 1)
Range(s) == {s[i] : i \in DOMAIN s}

\* StringDecoder("utf8").write(data): the text of the complete characters, an
\* incomplete trailing sequence kept for the next call, an invalid sequence
\* replaced by U+FFFD.
RECURSIVE DecodeFrom(_, _, _, _)
DecodeFrom(bytes, i, pending, out) ==
  IF i > Len(bytes) THEN [text |-> out, pending |-> pending]
  ELSE IF pending # <<>>
    THEN IF bytes[i] = "m2"
           THEN DecodeFrom(bytes, i + 1, <<>>, Append(out, "e"))
           ELSE DecodeFrom(bytes, i, <<>>, Append(out, "u"))
    ELSE IF bytes[i] = "m1" THEN DecodeFrom(bytes, i + 1, <<"m1">>, out)
    ELSE IF bytes[i] = "m2" THEN DecodeFrom(bytes, i + 1, <<>>, Append(out, "u"))
    ELSE DecodeFrom(bytes, i + 1, <<>>, Append(out, bytes[i]))

DecoderWrite(pending, bytes) == DecodeFrom(bytes, 1, pending, <<>>)

\* /HTTP\/1\.1/i.test(str)
HasHttp(s) == \E i \in 1..(Len(s) - 1) : s[i] = "h1" /\ s[i + 1] = "h2"

\* str.replace(/\r+/g, "")
RECURSIVE StripCR(_)
StripCR(s) ==
  IF s = <<>> THEN <<>>
  ELSE IF Head(s) = "r" THEN StripCR(Tail(s))
  ELSE <<Head(s)>> \o StripCR(Tail(s))

\* str.split(/\n+/)
RECURSIVE SplitFrom(_, _, _, _)
SplitFrom(s, i, cur, acc) ==
  IF i > Len(s) THEN Append(acc, cur)
  ELSE IF s[i] = "n"
    THEN IF i > 1 /\ s[i - 1] = "n"
           THEN SplitFrom(s, i + 1, cur, acc)
           ELSE SplitFrom(s, i + 1, <<>>, Append(acc, cur))
    ELSE SplitFrom(s, i + 1, Append(cur, s[i]), acc)

SplitLines(s) == SplitFrom(s, 1, <<>>, <<>>)

\* ClientPacket.fromRaw(line) returns a packet: the line is one JSON object
\* {"method":"..."} whose method is a string of at most 50 characters.
MethodChars == {"x", "e", "u", "h1", "h2", "B"}

FromRawOk(line) ==
  /\ Len(line) >= 2
  /\ Head(line) = "a1"
  /\ Last(line) = "a2"
  /\ \A i \in 2..(Len(line) - 1) : line[i] \in MethodChars
  /\ StrLen(SubSeq(line, 2, Len(line) - 1)) <= 50


\* ---------------------------------------------------------------- numbers

\* A difficulty is a JavaScript number n, an integer here, held as the pair
\* <<n \div 2^16, n % 2^16>>, so that the unsigned 32-bit values fit.
Word == 256 * 256
Num(n) == <<n \div Word, n % Word>>
Unset == Num(-1)
Zero == Num(0)
One == Num(1)
\* -1 >>> 0
MaxUint32 == <<Word - 1, Word - 1>>

Less(a, b) == a[1] < b[1] \/ (a[1] = b[1] /\ a[2] < b[2])
Leq(a, b) == a = b \/ Less(a, b)
Min(a, b) == IF Less(a, b) THEN a ELSE b
Max(a, b) == IF Less(b, a) THEN a ELSE b
Abs(a) == IF a < 0 THEN -a ELSE a

\* x >>> 0 of a non-negative number: its integer part modulo 2^32
ToUint32(a) == <<a[1] % Word, a[2]>>

\* The base-256 digits of a, 0 <= a < 2^32, lowest first
Digits(a) == <<a[2] % 256, a[2] \div 256, a[1] % 256, a[1] \div 256>>

\* The digits of ds * m, lowest first (m < 2^23)
RECURSIVE MulFrom(_, _, _, _)
MulFrom(ds, i, m, carry) ==
  IF i > Len(ds)
    THEN <<carry % 256, (carry \div 256) % 256, carry \div Word>>
    ELSE LET v == ds[i] * m + carry
         IN <<v % 256>> \o MulFrom(ds, i + 1, m, v \div 256)

\* The quotient of the digits ds by m, from digit i down (m < 2^23)
RECURSIVE DivFrom(_, _, _, _, _)
DivFrom(ds, i, m, rem, q) ==
  IF i = 0 THEN q
  ELSE LET v == rem * 256 + ds[i]
           l == q[2] * 256 + v \div m
       IN DivFrom(ds, i - 1, m, v % m, <<q[1] * 256 + l \div Word, l % Word>>)

\* The integer part of a * m / n
MulDiv(a, m, n) ==
  LET ds == MulFrom(Digits(a), 1, m, 0) IN DivFrom(ds, Len(ds), n, 0, Zero)

\* ------------------------------------------------------------------ state

VARIABLES
  conns,   \* the Connection objects, by connection
  jobs,    \* the Job objects, by job id
  pm,      \* SHARES_PER_MINUTE, the configured shares-per-minute target
  last     \* the call or event that made the last step, with what it returned

vars == <<conns, jobs, pm, last>>

\* ------------------------------------------------------------ bmutex Lock
\* this.locker = new Lock(): busy, destroyed, and the queue of waiting jobs
\* (here the ids of the packets whose readPacket waits).

NewLock == [busy |-> FALSE, destroyed |-> FALSE, jobs |-> <<>>]

\* LockLock with the busy test lost: the lock is granted while it is held.
LockLockNoWait(l, p) ==
  IF l.destroyed THEN [lock |-> l, outcome |-> "rejected"]
  ELSE [lock |-> [l EXCEPT !.busy = TRUE], outcome |-> "granted"]

\* locker.lock(): rejected when the lock is destroyed, queued when it is busy,
\* granted (a promise already resolved with the unlocker) otherwise.
LockLock(l, p) ==
  IF l.destroyed THEN [lock |-> l, outcome |-> "rejected"]
  ELSE IF l.busy
    THEN [lock |-> [l EXCEPT !.jobs = Append(@, p)], outcome |-> "queued"]
    ELSE [lock |-> [l EXCEPT !.busy = TRUE], outcome |-> "granted"]

\* unlock(): assert(destroyed || busy); frees the lock, or hands it to the
\* first waiting job (next is that job, 0 when none waits).
LockUnlock(l) ==
  IF ~(l.destroyed \/ l.busy) THEN [lock |-> l, next |-> 0, threw |-> TRUE]
  ELSE IF l.jobs = <<>>
    THEN [lock |-> [l EXCEPT !.busy = FALSE], next |-> 0, threw |-> FALSE]
  ELSE IF l.destroyed
    THEN [lock |-> [l EXCEPT !.busy = FALSE], next |-> 0, threw |-> TRUE]
  ELSE [lock |-> [l EXCEPT !.busy = TRUE, !.jobs = Tail(@)],
        next |-> Head(l.jobs), threw |-> FALSE]

\* locker.destroy(): every waiting job is rejected.
LockDestroy(l) == [busy |-> FALSE, destroyed |-> TRUE, jobs |-> <<>>]

\* ------------------------------------------------------------- Connection
\* pc[p] is where the "packet" listener called for packet p stands:
\*   "queued"   readPacket waits in locker.lock()
\*   "granted"  the lock promise is resolved, readPacket has not resumed
\*   "handling" readPacket awaits handlePacket
\*   "thrown"   readPacket has rejected, the listener's catch has not run
\*   "done"     the listener has returned
\* banScore is in millionths of a point; bans counts the "ban" events emitted
\* and penalties the increaseBan calls; decisions counts the retarget calls
\* that reached a decision point, late those made off the pace.
\* wrote, closes, errors, started, finished and nullDeref record what the
\* connection did: the texts written to the socket, the "close" and "error"
\* events emitted, the packets handed to handlePacket and those whose
\* handler ended, and whether a method was called on the null socket.

NewConnection ==
  [ destroyed |-> FALSE, socket |-> "open", paused |-> FALSE,
    decoder |-> <<>>, recv |-> <<>>, locker |-> NewLock, drainSize |-> 0,
    difficulty |-> Unset, nextDifficulty |-> Unset, lastRetarget |-> -1,
    submissions |-> 0, banScore |-> 0, lastBan |-> 0, bans |-> 0,
    penalties |-> 0, decisions |-> 0, late |-> 0,
    pc |-> <<>>,
    wrote |-> <<>>, closes |-> 0, errors |-> 0,
    started |-> <<>>, finished |-> <<>>, nullDeref |-> FALSE, feeds |-> 0 ]

\* destroy without its `if (this.destroyed) return`.
destroyAgain(cn) ==
  [cn EXCEPT
     !.destroyed = TRUE,
     !.locker = LockDestroy(@),
     !.pc = [p \in DOMAIN cn.pc |->
               IF p \in Range(cn.locker.jobs) THEN "thrown" ELSE cn.pc[p]],
     !.socket = "null",
     !.closes = @ + 1]

destroy(cn) ==
  IF cn.destroyed THEN cn
  ELSE [cn EXCEPT
          !.destroyed = TRUE,
          !.locker = LockDestroy(@),
          !.pc = [p \in DOMAIN cn.pc |->
                    IF p \in Range(cn.locker.jobs) THEN "thrown" ELSE cn.pc[p]],
          !.socket = "null",
          !.closes = @ + 1]

\* write with >= for > in the test of drainSize.
writeAtLimit(cn, text, accepted) ==
  IF cn.destroyed THEN cn
  ELSE LET w == [cn EXCEPT !.wrote = Append(@, text.tag)] IN
       IF accepted THEN w
       ELSE LET d == [w EXCEPT !.drainSize = @ + text.len] IN
            IF d.drainSize >= DrainLimit THEN destroy(d) ELSE d

\* write(text): text is [tag, len]; accepted is what socket.write returns.
write(cn, text, accepted) ==
  IF cn.destroyed THEN cn
  ELSE LET w == [cn EXCEPT !.wrote = Append(@, text.tag)] IN
       IF accepted THEN w
       ELSE LET d == [w EXCEPT !.drainSize = @ + text.len] IN
            IF d.drainSize > DrainLimit THEN destroy(d) ELSE d

\* send(json): the JSON text and a newline; msg is [tag, len].
send(cn, msg, accepted) ==
  IF cn.destroyed THEN cn
  ELSE write(cn, [tag |-> msg.tag, len |-> msg.len + 1], accepted)

error(cn) ==
  IF cn.destroyed THEN cn ELSE [cn EXCEPT !.errors = @ + 1]

\* The response of redirect() for publicHost "h" and publicPort 1: 173 bytes.
RedirectText == [tag |-> "redirect", len |-> 173]

\* redirect without its this.destroy().
redirectNoDestroy(cn, accepted) == write(cn, RedirectText, accepted)

redirect(cn, accepted) == destroy(write(cn, RedirectText, accepted))

\* emit("packet", msg): the listener calls readPacket, which runs to its
\* first await, locker.lock().
emitPacket(cn) ==
  LET p == Len(cn.pc) + 1
      r == LockLock(cn.locker, p)
  IN [cn EXCEPT
        !.locker = r.lock,
        !.pc = Append(@, IF r.outcome = "rejected" THEN "thrown" ELSE r.outcome)]

RECURSIVE feedLines(_, _, _)
feedLines(cn, lines, i) ==
  IF i > Len(lines) THEN cn
  ELSE IF lines[i] = <<>> THEN feedLines(cn, lines, i + 1)
  ELSE IF ~FromRawOk(lines[i]) THEN feedLines(error(cn), lines, i + 1)
  ELSE feedLines(emitPacket(cn), lines, i + 1)

\* feed(data), first statement: this.recv += this.decoder.write(data)
feedAppend(cn, data) ==
  LET d == DecoderWrite(cn.decoder, data)
  IN [cn EXCEPT !.decoder = d.pending, !.recv = @ \o d.text, !.feeds = @ + 1]

\* feedBranch with > for >= in the size test.
feedBranchStrict(recv) ==
  IF StrLen(recv) > RecvLimit THEN "oversize"
  ELSE IF HasHttp(recv) THEN "redirect"
  ELSE "lines"

\* feed(data): which of its three ways the call takes, given this.recv
feedBranch(recv) ==
  IF StrLen(recv) >= RecvLimit THEN "oversize"
  ELSE IF HasHttp(recv) THEN "redirect"
  ELSE "lines"

feed(cn, data, accepted) ==
  LET c1 == feedAppend(cn, data)
      br == feedBranch(c1.recv)
  IN IF br = "oversize" THEN destroy(error(c1))
     ELSE IF br = "redirect" THEN redirect(c1, accepted)
     ELSE LET lines == SplitLines(StripCR(c1.recv))
          IN feedLines([c1 EXCEPT !.recv = Last(lines)], Front(lines), 1)

\* The messages feed(data) emits as "packet" events, in order: the lines of
\* its loop that are not empty and that ClientPacket.fromRaw accepts.
RECURSIVE linesEmitted(_, _)
linesEmitted(lines, i) ==
  IF i > Len(lines) THEN <<>>
  ELSE IF lines[i] = <<>> \/ ~FromRawOk(lines[i]) THEN linesEmitted(lines, i + 1)
  ELSE <<lines[i]>> \o linesEmitted(lines, i + 1)

feedEmitted(cn, data) ==
  LET c1 == feedAppend(cn, data)
  IN IF feedBranch(c1.recv) = "lines"
       THEN linesEmitted(Front(SplitLines(StripCR(c1.recv))), 1)
       ELSE <<>>

\* resumePacket with the await of handlePacket lost: the finally block runs,
\* and the lock is released, as soon as the handler has been called.
resumePacketNoAwait(cn, p) ==
  IF cn.socket = "null"
    THEN [cn EXCEPT !.nullDeref = TRUE, !.pc[p] = "thrown"]
    ELSE LET u == LockUnlock(cn.locker)
         IN [cn EXCEPT
               !.started = Append(@, p),
               !.locker = u.lock,
               !.pc = [q \in DOMAIN cn.pc |->
                         IF q = p THEN "handling"
                         ELSE IF q = u.next THEN "granted" ELSE cn.pc[q]]]

\* readPacket resumed after `await this.locker.lock()`: socket.pause(), then
\* handlePacket is called; on the null socket pause() is a TypeError, the
\* finally block runs and readPacket rejects.
resumePacket(cn, p) ==
  IF cn.socket = "null"
    THEN LET u == LockUnlock(cn.locker)
         IN [cn EXCEPT
               !.nullDeref = TRUE,
               !.locker = u.lock,
               !.pc = [q \in DOMAIN cn.pc |->
                         IF q = p THEN "thrown"
                         ELSE IF q = u.next THEN "granted" ELSE cn.pc[q]]]
    ELSE [cn EXCEPT !.paused = TRUE, !.started = Append(@, p),
                    !.pc[p] = "handling"]

\* finishPacket without the finally: when handlePacket throws, the lock is
\* not released and the socket is not resumed.
finishPacketNoFinally(cn, p, ok) ==
  IF ok
    THEN LET u == LockUnlock(cn.locker)
         IN [cn EXCEPT
               !.paused = IF cn.destroyed THEN @ ELSE FALSE,
               !.finished = Append(@, p),
               !.locker = u.lock,
               !.pc = [q \in DOMAIN cn.pc |->
                         IF q = p THEN (IF ~u.threw THEN "done" ELSE "thrown")
                         ELSE IF q = u.next THEN "granted" ELSE cn.pc[q]]]
    ELSE [cn EXCEPT !.finished = Append(@, p), !.pc[p] = "thrown"]

\* handlePacket has returned (ok) or thrown: the finally block of readPacket.
finishPacket(cn, p, ok) ==
  LET u == LockUnlock(cn.locker)
  IN [cn EXCEPT
        !.paused = IF cn.destroyed THEN @ ELSE FALSE,
        !.finished = Append(@, p),
        !.locker = u.lock,
        !.pc = [q \in DOMAIN cn.pc |->
                  IF q = p THEN (IF ok /\ ~u.threw THEN "done" ELSE "thrown")
                  ELSE IF q = u.next THEN "granted" ELSE cn.pc[q]]]

\* The catch of the "packet" listener: this.error(e).
catchPacket(cn, p) == [error(cn) EXCEPT !.pc[p] = "done"]

\* -------------------------------------------------------------- ban score

Million == 1000 * 1000

\* Math.pow(1 - 1 / 60000, elapsed) in millionths, rounded down, for the
\* elapsed times of the model: none, just over one half-life, a long time.
DecayFactor(elapsed) ==
  CASE elapsed = 0 -> Million
    [] elapsed = 41589 -> 499995
    [] elapsed = 1000000 -> 0

\* this.banScore * Math.pow(1 - 1 / 60000, now - this.lastBan)
Decayed(banScore, elapsed) ==
  LET d == MulDiv(Num(banScore), DecayFactor(elapsed), Million)
  IN d[1] * Word + d[2]

\* increaseBan without the decay of the score.
increaseBanNoDecay(cn, score, now) ==
  LET total == cn.banScore + score * Million
  IN [cn EXCEPT !.banScore = total, !.lastBan = now,
                !.bans = IF total >= BanScore * Million THEN @ + 1 ELSE @]

\* increaseBan(score) at time now; ban() emits "ban".
increaseBan(cn, score, now) ==
  LET total == Decayed(cn.banScore, now - cn.lastBan) + score * Million
  IN [cn EXCEPT !.banScore = total, !.lastBan = now,
                !.bans = IF total >= BanScore * Million THEN @ + 1 ELSE @]

\* The server's listener of "ban": the banned connection is destroyed.
handleBan(cn) == destroy(cn)

\* ------------------------------------------------------------- difficulty

\* The messages of sendDifficulty and of sendJob, with lengths in bytes.
DifficultyMsg == [tag |-> "mining.set_difficulty", len |-> 60]
NotifyMsg == [tag |-> "mining.notify", len |-> 1000]

setDifficulty(cn, difficulty) == [cn EXCEPT !.nextDifficulty = difficulty]

\* sendDifficulty without its assert.
sendDifficultyNoAssert(cn, difficulty, accepted) ==
  [conn |-> send(cn, DifficultyMsg, accepted), threw |-> FALSE]

\* sendDifficulty(difficulty): assert(difficulty > 0) throws, else the message
sendDifficulty(cn, difficulty, accepted) ==
  IF ~Less(Zero, difficulty) THEN [conn |-> cn, threw |-> TRUE]
  ELSE [conn |-> send(cn, DifficultyMsg, accepted), threw |-> FALSE]

\* sendJob that sends the job before the pending difficulty.
sendJobNotifyFirst(cn, t, acc1, acc2) ==
  IF cn.nextDifficulty # Unset
    THEN LET c1 == send([cn EXCEPT !.submissions = 0, !.lastRetarget = t],
                        NotifyMsg, acc2)
             r == sendDifficulty(c1, c1.nextDifficulty, acc1)
         IN IF r.threw THEN [conn |-> c1, threw |-> TRUE, sent |-> <<>>]
            ELSE [conn |-> [r.conn EXCEPT !.difficulty = cn.nextDifficulty,
                                          !.nextDifficulty = Unset],
                  threw |-> FALSE,
                  sent |-> << <<"mining.notify", "job">>,
                              <<"mining.set_difficulty", cn.nextDifficulty>> >>]
    ELSE [conn |-> send(cn, NotifyMsg, acc2), threw |-> FALSE,
          sent |-> << <<"mining.notify", "job">> >>]

\* sendJob(job) at time t; acc1 and acc2 are what socket.write returns for
\* the two texts: [conn, threw, sent], sent the methods and parameters passed
\* to sendMethod, in order.
sendJob(cn, t, acc1, acc2) ==
  IF cn.nextDifficulty # Unset
    THEN LET c1 == [cn EXCEPT !.submissions = 0, !.lastRetarget = t]
             r == sendDifficulty(c1, c1.nextDifficulty, acc1)
         IN IF r.threw THEN [conn |-> c1, threw |-> TRUE, sent |-> <<>>]
            ELSE [conn |-> send([r.conn EXCEPT !.difficulty = cn.nextDifficulty,
                                               !.nextDifficulty = Unset],
                                NotifyMsg, acc2),
                  threw |-> FALSE,
                  sent |-> << <<"mining.set_difficulty", cn.nextDifficulty>>,
                              <<"mining.notify", "job">> >>]
    ELSE [conn |-> send(cn, NotifyMsg, acc2), threw |-> FALSE,
          sent |-> << <<"mining.notify", "job">> >>]

\* newDifficulty without the final Math.max(1, .).
newDifficultyNoFloor(difficulty, target, elapsed, max) ==
  LET cap == IF Less(MaxUint32, max) THEN MaxUint32 ELSE max
      lo == IF 4 * elapsed < target THEN target \div 4 ELSE elapsed
      actual == IF lo > target * 4 THEN target * 4 ELSE lo
  IN Min(cap, ToUint32(MulDiv(difficulty, target, actual)))

\* retarget(max), the difficulty it computes at a decision point outside the
\* band: 2^32 / ((2^32 / difficulty) * actual / target), the quotients taken
\* exactly, then >>> 0, Math.min(max, .), Math.max(1, .)
newDifficulty(difficulty, target, elapsed, max) ==
  LET cap == IF Less(MaxUint32, max) THEN MaxUint32 ELSE max
      lo == IF 4 * elapsed < target THEN target \div 4 ELSE elapsed
      actual == IF lo > target * 4 THEN target * 4 ELSE lo
      d == ToUint32(MulDiv(difficulty, target, actual))
  IN Max(One, Min(cap, d))

\* retarget with < for <= in the test of the band.
retargetStrictBand(cn, max, t, spm) ==
  IF ~Less(Zero, cn.difficulty) \/ cn.lastRetarget = -1
    THEN [conn |-> cn, ret |-> "throw", decided |-> FALSE]
  ELSE LET c1 == [cn EXCEPT !.submissions = @ + 1]
           target == (c1.submissions \div spm) * Minute
           actual == t - c1.lastRetarget
       IN IF c1.submissions % spm = 0
            THEN IF Abs(target - actual) < Hysteresis
                   THEN [conn |-> c1, ret |-> "false", decided |-> TRUE]
                   ELSE [conn |-> setDifficulty(c1,
                                   newDifficulty(c1.difficulty, target, actual, max)),
                         ret |-> "true", decided |-> TRUE]
            ELSE [conn |-> c1, ret |-> "false", decided |-> FALSE]

\* retarget that applies the new difficulty at once, as well as staging it.
retargetApplies(cn, max, t, spm) ==
  IF ~Less(Zero, cn.difficulty) \/ cn.lastRetarget = -1
    THEN [conn |-> cn, ret |-> "throw", decided |-> FALSE]
  ELSE LET c1 == [cn EXCEPT !.submissions = @ + 1]
           target == (c1.submissions \div spm) * Minute
           actual == t - c1.lastRetarget
           d == newDifficulty(c1.difficulty, target, actual, max)
       IN IF c1.submissions % spm = 0
            THEN IF Abs(target - actual) <= Hysteresis
                   THEN [conn |-> c1, ret |-> "false", decided |-> TRUE]
                   ELSE [conn |-> [setDifficulty(c1, d) EXCEPT !.difficulty = d],
                         ret |-> "true", decided |-> TRUE]
            ELSE [conn |-> c1, ret |-> "false", decided |-> FALSE]

\* retarget without the test of submissions % pm: every call decides, with
\* the target for the shares counted so far.
retargetEveryCall(cn, max, t, spm) ==
  IF ~Less(Zero, cn.difficulty) \/ cn.lastRetarget = -1
    THEN [conn |-> cn, ret |-> "throw", decided |-> FALSE]
  ELSE LET c1 == [cn EXCEPT !.submissions = @ + 1]
           target == (c1.submissions * Minute) \div spm
           actual == t - c1.lastRetarget
       IN IF Abs(target - actual) <= Hysteresis
            THEN [conn |-> c1, ret |-> "false", decided |-> TRUE]
            ELSE [conn |-> setDifficulty(c1,
                            newDifficulty(c1.difficulty, target, actual, max)),
                  ret |-> "true", decided |-> TRUE]

\* retarget(max) at time t: [conn, ret, decided], ret "throw" when an assert
\* fails, decided whether the call took the branch of submissions % pm === 0
retarget(cn, max, t, spm) ==
  IF ~Less(Zero, cn.difficulty) \/ cn.lastRetarget = -1
    THEN [conn |-> cn, ret |-> "throw", decided |-> FALSE]
  ELSE LET c1 == [cn EXCEPT !.submissions = @ + 1]
           target == (c1.submissions \div spm) * Minute
           actual == t - c1.lastRetarget
       IN IF c1.submissions % spm = 0
            THEN IF Abs(target - actual) <= Hysteresis
                   THEN [conn |-> c1, ret |-> "false", decided |-> TRUE]
                   ELSE [conn |-> setDifficulty(c1,
                                   newDifficulty(c1.difficulty, target, actual, max)),
                         ret |-> "true", decided |-> TRUE]
            ELSE [conn |-> c1, ret |-> "false", decided |-> FALSE]

\* -------------------------------------------------------------------- Job
\* submissions is the BufferSet of the hashes inserted; committed the flag.
\* inserts[h] counts the insert(h) calls, commits the commit calls, delegated
\* the calls of attempt.commit, and result is what the first of them did.

JobIds == {"j1", "j2"}
Hashes == 1..MaxHash

NewJob ==
  [ submissions |-> {}, committed |-> FALSE,
    inserts |-> [h \in Hashes |-> 0], commits |-> 0, delegated |-> 0,
    result |-> "none" ]

\* insert without its this.submissions.add(hash).
insertNoAdd(job, hash) ==
  IF hash \in job.submissions THEN [job |-> job, ret |-> "false"]
  ELSE [job |-> job, ret |-> "true"]

\* insert(hash): [job, ret]
insert(job, hash) ==
  IF hash \in job.submissions THEN [job |-> job, ret |-> "false"]
  ELSE [job |-> [job EXCEPT !.submissions = @ \cup {hash}], ret |-> "true"]

\* commit with the flag set only once attempt.commit has returned.
commitFlagLate(job, ok) ==
  IF job.committed THEN [job |-> job, ret |-> "throw"]
  ELSE [job |-> [job EXCEPT !.committed = ok, !.delegated = @ + 1,
                            !.result = IF ok THEN "ok" ELSE "failed"],
        ret |-> IF ok THEN "ok" ELSE "failed"]

\* commit(share): [job, ret]; ok is whether this.attempt.commit(share) returns
commit(job, ok) ==
  IF job.committed THEN [job |-> job, ret |-> "throw"]
  ELSE [job |-> [job EXCEPT !.committed = TRUE, !.delegated = @ + 1,
                            !.result = IF ok THEN "ok" ELSE "failed"],
        ret |-> IF ok THEN "ok" ELSE "failed"]

\* ---------------------------------------------------------------- actions

Step(op, obj, arg, ret) ==
  last' = [op |-> op, obj |-> obj, arg |-> arg, ret |-> ret]

\* The chunks the socket delivers in Spec: a valid line, two valid lines, an
\* invalid line, an HTTP request, and RecvLimit characters.
ConnChunks ==
  { <<"a1", "a2", "n">>, <<"a1", "a2", "n", "a1", "x", "a2", "n">>,
    <<"x", "n">>, <<"h1", "h2", "r", "n">>, <<"B", "B">> }

\* The chunks the socket delivers in SpecFeed: those of Spec, the two halves
\* of a valid line, the two halves of a line cut inside a two-byte character,
\* chunks of more than RecvLimit characters that are two complete lines,
\* and an HTTP request, and a valid line whose method is HTTP/1.1.
FeedChunks ==
  ConnChunks \cup
    { <<"a1">>, <<"a2", "n">>, <<"x", "m1">>, <<"m2", "n">>,
      <<"B", "n", "B", "n">>, <<"h1", "h2", "B", "B", "n">>,
      <<"a1", "h1", "h2", "a2", "n">> }

\* The byte lengths of the messages sent: a response, a large job.
WriteSizes == {100, 3145728}

\* socket "data" event, or a call of feed(data).
Feed(c, data, accepted) ==
  LET cn == feed(conns[c], data, accepted) IN
  /\ conns[c].feeds < MaxFeeds
  /\ Len(cn.pc) <= MaxPackets
  /\ Len(cn.wrote) <= MaxWrites
  /\ conns' = [conns EXCEPT ![c] = cn]
  /\ Step("feed", c, data, feedBranch(feedAppend(conns[c], data).recv))
  /\ UNCHANGED <<jobs, pm>>

\* readPacket resumes with the lock.
ResumePacket(c, p) ==
  /\ p \in DOMAIN conns[c].pc
  /\ conns[c].pc[p] = "granted"
  /\ conns' = [conns EXCEPT ![c] = resumePacket(@, p)]
  /\ Step("resume", c, p, "")
  /\ UNCHANGED <<jobs, pm>>

\* stratum.handlePacket(conn, msg) returns or throws.
FinishPacket(c, p, ok) ==
  /\ p \in DOMAIN conns[c].pc
  /\ conns[c].pc[p] = "handling"
  /\ conns' = [conns EXCEPT ![c] = finishPacket(@, p, ok)]
  /\ Step("finish", c, p, IF ok THEN "ok" ELSE "throw")
  /\ UNCHANGED <<jobs, pm>>

CatchPacket(c, p) ==
  /\ p \in DOMAIN conns[c].pc
  /\ conns[c].pc[p] = "thrown"
  /\ conns' = [conns EXCEPT ![c] = catchPacket(@, p)]
  /\ Step("catch", c, p, "")
  /\ UNCHANGED <<jobs, pm>>

\* socket "close" event, or a call of destroy() by the server.
Destroy(c) ==
  /\ conns' = [conns EXCEPT ![c] = destroy(@)]
  /\ Step("destroy", c, 0, "")
  /\ UNCHANGED <<jobs, pm>>

\* A call of send(json) by the server or a handler.
Send(c, len, accepted) ==
  /\ Len(conns[c].wrote) < MaxWrites
  /\ conns' = [conns EXCEPT ![c] = send(@, [tag |-> "json", len |-> len], accepted)]
  /\ Step("send", c, len, "")
  /\ UNCHANGED <<jobs, pm>>

\* A call of error(err) by the server or a handler.
Error(c) ==
  /\ conns[c].errors < MaxErrors
  /\ conns' = [conns EXCEPT ![c] = error(@)]
  /\ Step("error", c, 0, "")
  /\ UNCHANGED <<jobs, pm>>

\* socket "error" event: this.emit("error", err).
SocketError(c) ==
  /\ conns[c].socket = "open"
  /\ conns[c].errors < MaxErrors
  /\ conns' = [conns EXCEPT ![c].errors = @ + 1]
  /\ Step("socketError", c, 0, "")
  /\ UNCHANGED <<jobs, pm>>

\* socket "drain" event.
Drain(c) ==
  /\ conns[c].socket = "open"
  /\ conns[c].drainSize > 0
  /\ conns' = [conns EXCEPT ![c].drainSize = 0]
  /\ Step("drain", c, 0, "")
  /\ UNCHANGED <<jobs, pm>>

Init ==
  /\ conns = [c \in Conns |-> NewConnection]
  /\ jobs = [j \in JobIds |-> NewJob]
  /\ pm = SharesPerMinute
  /\ last = [op |-> "init", obj |-> "", arg |-> 0, ret |-> ""]

Next ==
  \E c \in Solo :
    \/ \E data \in ConnChunks, accepted \in BOOLEAN : Feed(c, data, accepted)
    \/ \E p \in 1..MaxPackets : ResumePacket(c, p)
    \/ \E p \in 1..MaxPackets, ok \in BOOLEAN : FinishPacket(c, p, ok)
    \/ \E p \in 1..MaxPackets : CatchPacket(c, p)
    \/ Destroy(c)
    \/ \E len \in WriteSizes, accepted \in BOOLEAN : Send(c, len, accepted)
    \/ Error(c)
    \/ SocketError(c)
    \/ Drain(c)

Spec == Init /\ [][Next]_vars

\* Two connections, each fed whole lines, handled and destroyed; each is fed
\* one time fewer than the connection of Spec.
PairChunks == { <<"a1", "a2", "n">>, <<"a1", "a2", "n", "a1", "x", "a2", "n">> }

PairFeed(c, data) ==
  /\ conns[c].feeds < MaxFeeds - 1
  /\ Feed(c, data, TRUE)

NextPair ==
  \E c \in Conns :
    \/ \E data \in PairChunks : PairFeed(c, data)
    \/ \E p \in 1..MaxPackets : ResumePacket(c, p)
    \/ \E p \in 1..MaxPackets, ok \in BOOLEAN : FinishPacket(c, p, ok)
    \/ \E p \in 1..MaxPackets : CatchPacket(c, p)
    \/ Destroy(c)

SpecPair == Init /\ [][NextPair]_vars

\* One connection, fed every kind of chunk, its packets handled, destroyed.
NextFeed ==
  \E c \in Solo :
    \/ \E data \in FeedChunks, accepted \in BOOLEAN : Feed(c, data, accepted)
    \/ \E p \in 1..MaxPackets : ResumePacket(c, p)
    \/ \E p \in 1..MaxPackets, ok \in BOOLEAN : FinishPacket(c, p, ok)
    \/ \E p \in 1..MaxPackets : CatchPacket(c, p)
    \/ Destroy(c)

SpecFeed == Init /\ [][NextFeed]_vars

\* The inbound byte streams of SpecFrame, each far below RecvLimit: two valid
\* lines; a run of newlines, a line that does not parse and a valid line
\* after it; a two-byte character, a carriage return and a trailing partial
\* line; carriage returns alone on a line; a line whose method is HTTP/1.1
\* with a carriage return inside it; and one that holds HTTP/1.1 itself.
Streams ==
  { <<"a1", "a2", "n", "a1", "x", "a2", "n">>,
    <<"a1", "a2", "n", "n", "x", "n", "a1", "a2", "n">>,
    <<"a1", "m1", "m2", "a2", "r", "n", "a1", "x">>,
    <<"x", "r", "n", "r", "n", "a1", "a2", "n">>,
    <<"a1", "h1", "r", "h2", "a2", "n">>,
    <<"a1", "a2", "n", "h1", "h2", "n">> }

\* The socket delivers the next k bytes of the stream as one "data" event:
\* last.arg is the stream, the number of its bytes delivered so far and the
\* messages emitted as "packet" events so far.
Deliver(c, k) ==
  LET stream == last.arg[1]
      pos == last.arg[2]
      data == SubSeq(stream, pos + 1, pos + k)
  IN /\ k >= 1
     /\ pos + k <= Len(stream)
     /\ conns' = [conns EXCEPT ![c] = feed(@, data, TRUE)]
     /\ Step("feed", c,
             <<stream, pos + k, last.arg[3] \o feedEmitted(conns[c], data)>>,
             feedBranch(feedAppend(conns[c], data).recv))
     /\ UNCHANGED <<jobs, pm>>

\* The socket delivers all that is left of the stream as one "data" event.
DeliverRest(c) == Deliver(c, Len(last.arg[1]) - last.arg[2])

InitFrame ==
  /\ conns = [c \in Conns |-> NewConnection]
  /\ jobs = [j \in JobIds |-> NewJob]
  /\ pm = SharesPerMinute
  /\ \E stream \in Streams :
       last = [op |-> "init", obj |-> "", arg |-> <<stream, 0, <<>>>>, ret |-> ""]

\* One connection and one stream, cut into "data" events in every way.
NextFrame ==
  \E c \in Solo :
    \/ \E k \in 1..MaxCut : Deliver(c, k)
    \/ DeliverRest(c)

SpecFrame == InitFrame /\ [][NextFrame]_vars

\* One connection fed whole lines, its packets handled, destroyed; a
\* continuation that can run does run, and a handler called does end.
NextHandle ==
  \E c \in Solo :
    \/ \E data \in PairChunks : Feed(c, data, TRUE)
    \/ \E p \in 1..MaxPackets : ResumePacket(c, p)
    \/ \E p \in 1..MaxPackets, ok \in BOOLEAN : FinishPacket(c, p, ok)
    \/ \E p \in 1..MaxPackets : CatchPacket(c, p)
    \/ Destroy(c)

SpecHandle ==
  /\ Init
  /\ [][NextHandle]_vars
  /\ \A c \in Solo :
       /\ WF_vars(\E p \in 1..MaxPackets : ResumePacket(c, p))
       /\ WF_vars(\E p \in 1..MaxPackets, ok \in BOOLEAN : FinishPacket(c, p, ok))
       /\ WF_vars(\E p \in 1..MaxPackets : CatchPacket(c, p))

\* ------------------------------------------------------------ Job actions

\* The insert calls made on a job.
RECURSIVE InsertCalls(_, _)
InsertCalls(job, h) ==
  IF h = 0 THEN 0 ELSE job.inserts[h] + InsertCalls(job, h - 1)

\* A handler of connection c calls job.insert(hash).
Insert(c, j, h) ==
  LET r == insert(jobs[j], h) IN
  /\ InsertCalls(jobs[j], MaxHash) < MaxInserts
  /\ jobs' = [jobs EXCEPT ![j] = [r.job EXCEPT !.inserts[h] = @ + 1]]
  /\ Step("insert", j, <<h, c>>, r.ret)
  /\ UNCHANGED <<conns, pm>>

\* A handler calls job.commit(share); ok is whether attempt.commit returns.
Commit(j, ok) ==
  LET r == commit(jobs[j], ok) IN
  /\ jobs[j].commits < MaxCommits
  /\ jobs' = [jobs EXCEPT ![j] = [r.job EXCEPT !.commits = @ + 1]]
  /\ Step("commit", j, 0, r.ret)
  /\ UNCHANGED <<conns, pm>>

NextJob ==
  \E j \in JobIds :
    \/ \E c \in Conns, h \in Hashes : Insert(c, j, h)
    \/ \E ok \in BOOLEAN : Commit(j, ok)

SpecJob == Init /\ [][NextJob]_vars

\* ----------------------------------------------------- difficulty actions

\* The values Date.now() returns, in ms (the wall clock, which may be set
\* back), and the difficulties and caps the server passes.
Instants == {0, 55000, 65001, 1000000}
Difficulties == {One, Num(1000), Num(1073741824), MaxUint32}
Caps == {One, Num(1000), <<Word, 4>>}

\* The server calls setDifficulty(difficulty).
SetDifficulty(c, d) ==
  /\ conns' = [conns EXCEPT ![c] = setDifficulty(@, d)]
  /\ Step("setDifficulty", c, d, "")
  /\ UNCHANGED <<jobs, pm>>

\* The server calls sendJob(job), Date.now() is t; the socket takes what is
\* written.
SendJob(c, t) ==
  LET r == sendJob(conns[c], t, TRUE, TRUE) IN
  /\ Len(conns[c].wrote) + 2 <= 2 * MaxJobs
  /\ conns' = [conns EXCEPT ![c] = r.conn]
  /\ Step("sendJob", c, <<t, r.sent>>, IF r.threw THEN "throw" ELSE "")
  /\ UNCHANGED <<jobs, pm>>

\* A submission handler calls retarget(max), Date.now() is t.
Retarget(c, max, t) ==
  LET r == retarget(conns[c], max, t, pm) IN
  /\ conns[c].submissions < MaxDecisions * pm
  /\ conns' = [conns EXCEPT ![c] = r.conn]
  /\ Step("retarget", c, <<max, t>>, r.ret)
  /\ UNCHANGED <<jobs, pm>>

\* The connection after setDifficulty(d) and sendJob at time t0.
JobSent(d, t0) == sendJob(setDifficulty(NewConnection, d), t0, TRUE, TRUE).conn

\* The connection after n more shares, each retargeted exactly on pace (share
\* k at k minutes / spm after the job): no decision point leaves the band.
RECURSIVE PacedShares(_, _, _)
PacedShares(cn, n, spm) ==
  IF n = 0 THEN cn
  ELSE PacedShares(
         retarget(cn, One,
                  cn.lastRetarget + ((cn.submissions + 1) * Minute) \div spm,
                  spm).conn,
         n - 1, spm)

\* SpecDiff starts from a new connection, or from one that was sent its first
\* job at difficulty d and has since received n shares on pace.
InitDiff ==
  /\ pm = SharesPerMinute
  /\ \E d \in Difficulties, n \in 0..(MaxDecisions * SharesPerMinute - 1) :
       conns = [c \in Conns |->
                  IF c \in Solo
                    THEN PacedShares(JobSent(d, 0), n, SharesPerMinute)
                    ELSE NewConnection]
  /\ jobs = [j \in JobIds |-> NewJob]
  /\ last = [op |-> "init", obj |-> "", arg |-> 0, ret |-> ""]

NextDiff ==
  \E c \in Solo :
    \/ \E t \in Instants : SendJob(c, t)
    \/ \E max \in Caps, t \in Instants : Retarget(c, max, t)

SpecDiff == InitDiff /\ [][NextDiff]_vars

\* The difficulties the server stages: the configured one, an unsigned
\* integer that may be 0, the sentinel itself, and a negative number; and the
\* caps and clock values of its retarget calls, far off the pace both ways.
StagedDifficulties == {Unset, Num(-5), Zero, One, Num(1000), MaxUint32}
StageCaps == {Zero, Num(1000)}
StageInstants == {0, 1000000}

\* A new connection: setDifficulty, sendJob and retarget in any order.
NextStage ==
  \E c \in Solo :
    \/ \E d \in StagedDifficulties : SetDifficulty(c, d)
    \/ \E t \in StageInstants : SendJob(c, t)
    \/ \E max \in StageCaps, t \in StageInstants : Retarget(c, max, t)

SpecStage == Init /\ [][NextStage]_vars

\* ---------------------------------------------------------- paced shares

\* The configured shares-per-minute targets of SpecPaced.
PacedRates == {SharesPerMinute, 20}

\* The time of share n after the job when pm shares a minute arrive evenly.
PacedTime(cn, n) == cn.lastRetarget + (n * Minute) \div pm

\* A submission handler calls retarget(max) for a share that arrives on the
\* pace (late = 0) or late ms after it.
Share(c, max, late) ==
  LET cn == conns[c]
      t == PacedTime(cn, cn.submissions + 1) + late
      r == retarget(cn, max, t, pm) IN
  /\ cn.submissions < PacedMinutes * pm
  /\ late > 0 => cn.late < MaxLate
  /\ conns' = [conns EXCEPT ![c] =
                 [r.conn EXCEPT !.decisions = IF r.decided THEN @ + 1 ELSE @,
                                !.late = IF late > 0 THEN @ + 1 ELSE @]]
  /\ Step("retarget", c, <<max, t>>, r.ret)
  /\ UNCHANGED <<jobs, pm>>

PacedShare(c) == Share(c, MaxUint32, 0)
LateShare(c) == Share(c, MaxUint32, 1000000)

InitPaced ==
  /\ \E d \in Difficulties :
       conns = [c \in Conns |-> IF c \in Solo THEN JobSent(d, 0) ELSE NewConnection]
  /\ jobs = [j \in JobIds |-> NewJob]
  /\ pm \in PacedRates
  /\ last = [op |-> "init", obj |-> "", arg |-> 0, ret |-> ""]

NextPaced == \E c \in Solo : PacedShare(c) \/ LateShare(c)

SpecPaced == InitPaced /\ [][NextPaced]_vars

\* ---------------------------------------------------------- drain actions

\* The byte lengths of the JSON texts sent in SpecDrain; send() adds the
\* newline, so two of them can add up to DrainLimit exactly.
SendSizes == {99, 2097151, 3145727}

\* A call of send(json); accepted is what socket.write returns.
SendSized(c, len, accepted) ==
  /\ Len(conns[c].wrote) < MaxSends
  /\ conns' = [conns EXCEPT ![c] = send(@, [tag |-> "json", len |-> len], accepted)]
  /\ Step("send", c, len, IF accepted THEN "accepted" ELSE "backpressure")
  /\ UNCHANGED <<jobs, pm>>

NextDrain ==
  \E c \in Solo :
    \/ \E len \in SendSizes, accepted \in BOOLEAN : SendSized(c, len, accepted)
    \/ Drain(c)
    \/ Destroy(c)

SpecDrain == Init /\ [][NextDrain]_vars

\* ------------------------------------------------------------- Submission
\* A parameter of a packet is a number or a string; of a string the model
\* keeps the length and whether every character is a hexadecimal digit.

NumberValue == [type |-> "number", len |-> 0, hex |-> FALSE]
Str(len, hex) == [type |-> "string", len |-> len, hex |-> hex]

\* util.isUsername
isUsername(v) == v.type = "string" /\ v.len > 0 /\ v.len <= 100

\* util.isJob
isJob(v) == v.type = "string" /\ v.len >= 12 /\ v.len <= 21

\* /^[0-9a-f]$/i.test(str): the string is one hexadecimal digit
TestOneHexDigit(v) == v.len = 1 /\ v.hex

\* util.isHex
isHex(v) == v.type = "string" /\ v.len % 2 = 0 /\ TestOneHexDigit(v)

\* Submission.fromPacket(msg) for msg.params = params: the record it
\* returns, or the assertion that fails.
fromPacket(params) ==
  LET Throw == [ok |-> FALSE, subm |-> <<>>] IN
  IF Len(params) < 5 THEN Throw
  ELSE IF ~isUsername(params[1]) THEN Throw
  ELSE IF ~isJob(params[2]) THEN Throw
  ELSE IF params[3].type # "string" THEN Throw
  ELSE IF params[3].len # NonceSize * 2 THEN Throw
  ELSE IF ~isHex(params[3]) THEN Throw
  ELSE IF params[4].type # "string" THEN Throw
  ELSE IF params[4].len # 8 THEN Throw
  ELSE IF ~isHex(params[4]) THEN Throw
  ELSE IF params[5].type # "string" THEN Throw
  ELSE IF ~isHex(params[5]) THEN Throw
  ELSE [ok |-> TRUE,
        subm |-> [username |-> params[1], job |-> params[2],
                  nonce2 |-> params[3], ts |-> params[4], nonce |-> params[5]]]

\* The values a packet carries in each of the five positions.
Usernames == {Str(0, FALSE), Str(1, FALSE), Str(100, FALSE), Str(101, FALSE), NumberValue}
JobNames == {Str(11, TRUE), Str(12, TRUE), Str(21, FALSE), Str(22, FALSE)}
Nonce2s == {Str(8, TRUE), Str(8, FALSE), Str(6, TRUE), Str(1, TRUE), NumberValue}
Times == {Str(8, TRUE), Str(8, FALSE), Str(7, TRUE)}
Nonces == {Str(8, TRUE), Str(64, TRUE), Str(1, TRUE), Str(8, FALSE)}

\* The parameter lists: five values, or the first four of them.
ParamLists ==
  LET five == Usernames \X JobNames \X Nonce2s \X Times \X Nonces
  IN five \cup {SubSeq(q, 1, 4) : q \in five}

\* The handler of mining.submit calls Submission.fromPacket(msg).
FromPacket(params) ==
  /\ Step("fromPacket", "", params, fromPacket(params))
  /\ UNCHANGED <<conns, jobs, pm>>

NextSubm == \E params \in ParamLists : FromPacket(params)

SpecSubm == Init /\ [][NextSubm]_vars

\* ------------------------------------------------------------ ban actions

\* The penalties the handlers give, in points, and the times between two
\* penalties, in ms.
Penalties == {10, 50, 100}
BanGaps == {0, 41589, 1000000}

\* A handler calls increaseBan(score), Date.now() is gap after the last
\* penalty; the listeners of "ban" run inside the call.
IncreaseBan(c, score, gap) ==
  LET now == conns[c].lastBan + gap
      cn == [increaseBan(conns[c], score, now) EXCEPT !.penalties = @ + 1] IN
  /\ conns[c].penalties < MaxPenalties
  /\ conns' = [conns EXCEPT ![c] =
                 IF cn.bans > conns[c].bans THEN handleBan(cn) ELSE cn]
  /\ Step("increaseBan", c, <<score, now>>, "")
  /\ UNCHANGED <<jobs, pm>>

NextBan ==
  \E c \in Solo :
    \/ \E score \in Penalties, gap \in BanGaps : IncreaseBan(c, score, gap)
    \/ Destroy(c)

SpecBan == Init /\ [][NextBan]_vars

\* ----------------------------------------------------------------- claims

\* The packets of connection c whose handlePacket is in flight.
Handling(c) == {p \in DOMAIN conns[c].pc : conns[c].pc[p] = "handling"}

\* C1: in every reachable state each connection has at most one packet
\* handler in flight: at most one packet is in handlePacket, and the handlers
\* started exceed the handlers ended by at most one.
C1_OneHandlerPerConnection ==
  \A c \in Conns :
    /\ Cardinality(Handling(c)) <= 1
    /\ Len(conns[c].started) - Len(conns[c].finished) = Cardinality(Handling(c))

\* C1 witness: both connections have a handler in flight, and the first has a
\* second packet of the same chunk waiting for the lock.
C1_Witness ==
  /\ Handling("c1") # {}
  /\ Handling("c2") # {}
  /\ \E p \in DOMAIN conns["c1"].pc : conns["c1"].pc[p] = "queued"

C3_DestroyedIsTerminal ==
  [][\A c \in Conns :
       /\ conns'[c].closes = (IF conns'[c].destroyed THEN 1 ELSE 0)
       /\ conns[c].destroyed =>
            /\ conns'[c].destroyed
            /\ conns'[c].closes = conns[c].closes
            /\ conns'[c].wrote = conns[c].wrote
            /\ conns'[c].errors = conns[c].errors
            /\ (last'.obj = c /\ last'.op \in {"destroy", "send", "error"}
                  => conns'[c] = conns[c])]_vars

\* C3 witness: send was called on a connection destroyed before the call
\* (not by the call: its drainSize is within the limit).
C3_Witness ==
  /\ last.op = "send"
  /\ conns[last.obj].destroyed
  /\ conns[last.obj].drainSize <= DrainLimit
  /\ conns[last.obj].closes = 1

\* C4, as claimed: after destroy no handlePacket starts for the connection,
\* and no method is called on the null socket.
C4_NoDispatchAfterDestroy ==
  [][\A c \in Conns :
       /\ conns[c].destroyed => conns'[c].started = conns[c].started
       /\ ~conns'[c].nullDeref]_vars

\* C4, the part that holds: after destroy no handlePacket starts.
C4_NoHandlerAfterDestroy ==
  [][\A c \in Conns :
       conns[c].destroyed => conns'[c].started = conns[c].started]_vars

\* C5: the recorded hashes of a job only grow; insert(hash) on a job returns
\* true exactly when no insert(hash) was called on that job before, whichever
\* connection calls; and it leaves the other jobs' hashes as they are.
C5_InsertOncePerHash ==
  [][\A j \in JobIds :
       /\ jobs[j].submissions \subseteq jobs'[j].submissions
       /\ last'.op = "insert" /\ last'.obj = j =>
            /\ (last'.ret = "true") <=> (jobs[j].inserts[last'.arg[1]] = 0)
            /\ last'.arg[1] \in jobs'[j].submissions
            /\ \A k \in JobIds \ {j} :
                 jobs'[k].submissions = jobs[k].submissions]_vars

\* C5 witness: connection c2 inserts into j1 a hash that c1 inserted before,
\* and gets false, while j2 has recorded nothing.
C5_Witness ==
  /\ last.op = "insert"
  /\ last.obj = "j1"
  /\ last.arg = <<1, "c2">>
  /\ last.ret = "false"
  /\ jobs["j1"].inserts[1] = 2
  /\ jobs["j2"].submissions = {}

\* C6: committed never goes back to false; attempt.commit is called at most
\* once per job; the first commit call sets the flag and delegates, whatever
\* attempt.commit does; every later call throws and does not delegate.
C6_CommitOnce ==
  [][\A j \in JobIds :
       /\ jobs[j].committed => jobs'[j].committed
       /\ jobs'[j].delegated <= 1
       /\ last'.op = "commit" /\ last'.obj = j =>
            IF jobs[j].commits = 0
              THEN /\ jobs'[j].committed
                   /\ jobs'[j].delegated = 1
                   /\ last'.ret \in {"ok", "failed"}
              ELSE /\ last'.ret = "throw"
                   /\ jobs'[j].delegated = jobs[j].delegated]_vars

\* C6 witness: a second commit throws after the first, delegated, failed.
C6_Witness ==
  /\ last.op = "commit"
  /\ last.ret = "throw"
  /\ jobs[last.obj].result = "failed"
  /\ jobs[last.obj].delegated = 1
  /\ jobs[last.obj].commits = 2

\* C7: when retarget(cap) returns true, the difficulty it staged is at least
\* 1 and at most cap.
C7_StagedWithinBounds ==
  \A c \in Conns :
    last.op = "retarget" /\ last.obj = c /\ last.ret = "true" =>
      /\ Leq(One, conns[c].nextDifficulty)
      /\ Leq(conns[c].nextDifficulty, last.arg[1])

\* C7 witness: difficulty 2^30 and no time elapsed: four times the difficulty
\* is 2^32, which >>> 0 makes 0, and 1 is staged under a cap above 2^32.
C7_Witness ==
  /\ last.op = "retarget"
  /\ last.ret = "true"
  /\ last.arg[1] = <<Word, 4>>
  /\ conns[last.obj].difficulty = Num(1073741824)
  /\ last.arg[2] = conns[last.obj].lastRetarget
  /\ conns[last.obj].nextDifficulty = One

\* C8: a retarget call at a decision point whose elapsed time is within
\* Hysteresis of the target returns false and leaves the current and the
\* pending difficulty as they were.
C8_BandNoRetarget ==
  [][\A c \in Conns :
       ( /\ last'.op = "retarget" /\ last'.obj = c
         /\ Less(Zero, conns[c].difficulty)
         /\ conns[c].lastRetarget # -1
         /\ (conns[c].submissions + 1) % pm = 0
         /\ Abs(((conns[c].submissions + 1) \div pm) * Minute
                  - (last'.arg[2] - conns[c].lastRetarget)) <= Hysteresis )
       => /\ last'.ret = "false"
          /\ conns'[c].difficulty = conns[c].difficulty
          /\ conns'[c].nextDifficulty = conns[c].nextDifficulty]_vars

\* C8 witness: a decision point exactly Hysteresis off the target returned
\* false.
C8_Witness ==
  /\ last.op = "retarget"
  /\ last.ret = "false"
  /\ conns[last.obj].submissions > 0
  /\ conns[last.obj].submissions % pm = 0
  /\ Abs((conns[last.obj].submissions \div pm) * Minute
           - (last.arg[2] - conns[last.obj].lastRetarget)) = Hysteresis

\* The text feed measures: what was retained and what the chunk decodes to.
Accumulated(c, data) == conns[c].recv \o DecoderWrite(conns[c].decoder, data).text

\* feed closed a live connection for its size: it emitted "error" and
\* destroyed the connection, wrote nothing and emitted no packet.
ClosedForSize(c) ==
  /\ ~conns[c].destroyed
  /\ conns'[c].destroyed
  /\ conns'[c].errors = conns[c].errors + 1
  /\ conns'[c].wrote = conns[c].wrote
  /\ Len(conns'[c].pc) = Len(conns[c].pc)

\* C9, as claimed: a feed closes for size exactly when what is left after the
\* complete lines are taken out exceeds RecvLimit.
C9_ClosedIffRemainderOverCap ==
  \A c \in Conns :
    last.op = "feed" /\ last.obj = c =>
      ((last.ret = "oversize")
         <=> StrLen(Last(SplitLines(StripCR(conns[c].recv)))) > RecvLimit)

\* C9, amended: a feed on a live connection closes it for size exactly when
\* the retained text plus the decoded chunk, before any line is taken out,
\* has RecvLimit characters or more; a live connection retains fewer.
C9_ClosedIffBufferAtCap ==
  [][\A c \in Conns :
       /\ last'.op = "feed" /\ last'.obj = c /\ ~conns[c].destroyed =>
            (ClosedForSize(c) <=> StrLen(Accumulated(c, last'.arg)) >= RecvLimit)
       /\ ~conns'[c].destroyed => StrLen(conns'[c].recv) < RecvLimit]_vars

\* C9 witness: a chunk of two complete lines and nothing after them, of
\* RecvLimit + 2 characters, closed a fresh connection for size.
C9_Witness ==
  /\ last.op = "feed"
  /\ last.arg = <<"B", "n", "B", "n">>
  /\ conns[last.obj].feeds = 1
  /\ conns[last.obj].destroyed
  /\ conns[last.obj].errors = 1
  /\ conns[last.obj].wrote = <<>>

\* feed answered with the redirect: it wrote the response once, destroyed
\* the connection, and dispatched no packet.
Redirected(c) ==
  /\ conns'[c].wrote = Append(conns[c].wrote, "redirect")
  /\ conns'[c].destroyed
  /\ conns'[c].closes = 1
  /\ conns'[c].pc = conns[c].pc
  /\ conns'[c].started = conns[c].started

\* C10, as claimed: a feed whose buffered text holds HTTP/1.1, on a live
\* connection that has emitted no packet yet, is answered with the redirect.
C10_HttpIsRedirected ==
  [][\A c \in Conns :
       ( /\ last'.op = "feed" /\ last'.obj = c
         /\ ~conns[c].destroyed
         /\ conns[c].pc = <<>>
         /\ HasHttp(Accumulated(c, last'.arg)) )
       => Redirected(c)]_vars

\* C10, amended: the same, when the buffered text is shorter than RecvLimit;
\* and no connection is ever written the redirect twice.
C10_ShortHttpIsRedirected ==
  [][\A c \in Conns :
       /\ ( /\ last'.op = "feed" /\ last'.obj = c
            /\ ~conns[c].destroyed
            /\ conns[c].pc = <<>>
            /\ HasHttp(Accumulated(c, last'.arg))
            /\ StrLen(Accumulated(c, last'.arg)) < RecvLimit )
          => Redirected(c)
       /\ Cardinality({i \in DOMAIN conns'[c].wrote :
                         conns'[c].wrote[i] = "redirect"}) <= 1]_vars

\* C10 witness: the first chunk of a connection was an HTTP request; the
\* response is the one text written, the connection is destroyed, no packet.
C10_Witness ==
  /\ last.op = "feed"
  /\ last.arg = <<"h1", "h2", "r", "n">>
  /\ conns[last.obj].feeds = 1
  /\ conns[last.obj].wrote = <<"redirect">>
  /\ conns[last.obj].destroyed
  /\ conns[last.obj].pc = <<>>


\* C11: a live connection has drainSize <= DrainLimit; a drain event sets the
\* count to 0; a send on a live connection that the socket accepts leaves the
\* count and the connection as they are; one the socket does not accept adds
\* the bytes of the text, and destroys the connection exactly when the count
\* then exceeds DrainLimit.
C11_DrainLimit ==
  [][\A c \in Conns :
       /\ ~conns'[c].destroyed => conns'[c].drainSize <= DrainLimit
       /\ last'.op = "drain" /\ last'.obj = c => conns'[c].drainSize = 0
       /\ last'.op = "send" /\ last'.obj = c /\ ~conns[c].destroyed =>
            IF last'.ret = "accepted"
              THEN /\ conns'[c].drainSize = conns[c].drainSize
                   /\ ~conns'[c].destroyed
              ELSE /\ conns'[c].drainSize = conns[c].drainSize + last'.arg + 1
                   /\ conns'[c].destroyed <=> conns'[c].drainSize > DrainLimit]_vars

\* C11 witness: a send under backpressure took the count over DrainLimit,
\* after an earlier send, and the connection is destroyed.
C11_Witness ==
  /\ last.op = "send"
  /\ last.ret = "backpressure"
  /\ conns[last.obj].drainSize > DrainLimit
  /\ conns[last.obj].drainSize - (last.arg + 1) > 0
  /\ conns[last.obj].destroyed
  /\ conns[last.obj].closes = 1


\* C12: an increaseBan(amount) call emits "ban" exactly when the score
\* before the call, decayed for the time since the last penalty, plus amount
\* is BanScore or more; a ban needs the undecayed score plus amount to reach
\* BanScore, so a first penalty under BanScore never bans, whatever time
\* passes; nothing but increaseBan emits "ban"; and the banned connection is
\* destroyed.
C12_BanIffThreshold ==
  [][\A c \in Conns :
       LET banned == conns'[c].bans = conns[c].bans + 1 IN
       /\ banned \/ conns'[c].bans = conns[c].bans
       /\ banned => last'.op = "increaseBan" /\ last'.obj = c
       /\ last'.op = "increaseBan" /\ last'.obj = c =>
            /\ banned <=>
                 Decayed(conns[c].banScore, last'.arg[2] - conns[c].lastBan)
                   + last'.arg[1] * Million >= BanScore * Million
            /\ banned =>
                 /\ conns[c].banScore + last'.arg[1] * Million >= BanScore * Million
                 /\ conns'[c].destroyed]_vars

\* C12 witness: a penalty under BanScore bans, and destroys, a connection
\* whose score had decayed since an earlier penalty.
C12_Witness ==
  /\ last.op = "increaseBan"
  /\ last.arg[1] < BanScore
  /\ conns[last.obj].bans = 1
  /\ conns[last.obj].banScore % Million # 0
  /\ conns[last.obj].destroyed


\* The packet carries the five fields in the formats of the claim.
WellFormed(params) ==
  /\ Len(params) = 5
  /\ params[1].type = "string" /\ params[1].len \in 1..100
  /\ params[2].type = "string" /\ params[2].len \in 12..21
  /\ params[3].type = "string" /\ params[3].len = NonceSize * 2 /\ params[3].hex
  /\ params[4].type = "string" /\ params[4].len = 8 /\ params[4].hex
  /\ params[5].type = "string" /\ params[5].len > 0 /\ params[5].hex

\* C13, as claimed: Submission.fromPacket returns a record, holding the five
\* values, exactly when the packet carries the five fields in their formats,
\* and fails otherwise.
C13_FromPacketIffWellFormed ==
  last.op = "fromPacket" =>
    /\ last.ret.ok <=> WellFormed(last.arg)
    /\ last.ret.ok =>
         last.ret.subm = [username |-> last.arg[1], job |-> last.arg[2],
                          nonce2 |-> last.arg[3], ts |-> last.arg[4],
                          nonce |-> last.arg[5]]


\* C14: a retarget call reaches a decision point exactly when the counter it
\* has incremented is a multiple of pm; any other call returns false and
\* changes only the counter.  A share on the pace returns false and stages
\* nothing, and at a decision point it is inside the band.  So PacedMinutes
\* minutes of paced shares (240 shares at 20 a minute) make PacedMinutes (12)
\* decision points and stage nothing.
C14_DecisionEveryPmShares ==
  [][\A c \in Conns :
       last'.op = "retarget" /\ last'.obj = c =>
         LET n == conns[c].submissions + 1
             paced == last'.arg[2] = PacedTime(conns[c], n) IN
         /\ conns'[c].decisions = conns[c].decisions + (IF n % pm = 0 THEN 1 ELSE 0)
         /\ n % pm # 0 =>
              /\ last'.ret = "false"
              /\ [conns'[c] EXCEPT !.late = 0]
                   = [conns[c] EXCEPT !.submissions = n, !.late = 0]
         /\ paced =>
              /\ last'.ret = "false"
              /\ conns'[c].nextDifficulty = conns[c].nextDifficulty
              /\ conns'[c].difficulty = conns[c].difficulty
              /\ n % pm = 0 =>
                   Abs((n \div pm) * Minute - (last'.arg[2] - conns[c].lastRetarget))
                     <= Hysteresis
         /\ conns'[c].late = 0 /\ conns'[c].submissions = PacedMinutes * pm =>
              /\ conns'[c].decisions = PacedMinutes
              /\ conns'[c].nextDifficulty = Unset]_vars

\* C14 witness: 20 shares a minute, 240 shares on the pace: 12 decision
\* points and nothing staged.
C14_Witness ==
  /\ pm = 20
  /\ conns["c1"].submissions = 240
  /\ conns["c1"].late = 0
  /\ conns["c1"].decisions = 12
  /\ conns["c1"].nextDifficulty = Unset
  /\ last.op = "retarget"


\* C15: retarget leaves the current difficulty as it is; when it returns
\* true a pending difficulty is set, and when it does not the pending
\* difficulty is as before; the current difficulty changes only in a sendJob
\* step, to the difficulty that was pending when sendJob was called.
C15_StagedNotApplied ==
  [][\A c \in Conns :
       /\ last'.op = "retarget" /\ last'.obj = c =>
            /\ conns'[c].difficulty = conns[c].difficulty
            /\ IF last'.ret = "true"
                 THEN conns'[c].nextDifficulty # Unset
                 ELSE conns'[c].nextDifficulty = conns[c].nextDifficulty
       /\ conns'[c].difficulty # conns[c].difficulty =>
            /\ last'.op = "sendJob" /\ last'.obj = c
            /\ conns[c].nextDifficulty # Unset
            /\ conns'[c].difficulty = conns[c].nextDifficulty
       /\ last'.op = "sendJob" /\ last'.obj = c /\ last'.ret # "throw"
            /\ conns[c].nextDifficulty # Unset =>
            conns'[c].difficulty = conns[c].nextDifficulty]_vars

\* C15 witness: the second job of a connection applied the difficulty 1 that
\* a retarget had staged.
C15_Witness ==
  /\ last.op = "sendJob"
  /\ Len(conns[last.obj].wrote) = 4
  /\ conns[last.obj].wrote[3] = "mining.set_difficulty"
  /\ conns[last.obj].difficulty = One
  /\ conns[last.obj].nextDifficulty = Unset


C17_NoRedirectAfterValidLine ==
  [][\A c \in Conns :
       ( /\ last'.op = "feed" /\ last'.obj = c
         /\ ~conns[c].destroyed
         /\ conns[c].pc # <<>>
         /\ HasHttp(Accumulated(c, last'.arg))
         /\ StrLen(Accumulated(c, last'.arg)) < RecvLimit )
       => /\ ~conns'[c].destroyed
          /\ conns'[c].wrote = conns[c].wrote]_vars


\* A handler of a live connection has failed: the step resumes the socket,
\* and frees the lock or hands it to the packet that waited longest; the
\* catch that follows emits "error".
FailureRecovered(c) ==
  /\ last'.op = "finish" /\ last'.obj = c /\ last'.ret = "throw"
       /\ ~conns[c].destroyed =>
       /\ ~conns'[c].paused
       /\ conns'[c].pc[last'.arg] = "thrown"
       /\ IF conns[c].locker.jobs = <<>>
            THEN ~conns'[c].locker.busy
            ELSE conns'[c].pc[Head(conns[c].locker.jobs)] = "granted"
  /\ last'.op = "catch" /\ last'.obj = c /\ ~conns[c].destroyed =>
       conns'[c].errors = conns[c].errors + 1

\* A packet of a live connection waits for the lock only while another
\* packet has it.
NoStall(c) ==
  ~conns[c].destroyed /\ (\E p \in DOMAIN conns[c].pc : conns[c].pc[p] = "queued")
    => \E q \in DOMAIN conns[c].pc : conns[c].pc[q] \in {"granted", "handling"}

\* C18: a handler that fails on a live connection releases the lock and
\* resumes the socket, and the failure is emitted as "error"; no packet waits
\* for a lock that nothing holds; and every packet emitted is handed to its
\* handler, in order (C2), unless the connection is destroyed first.
C18_FailedHandlerDoesNotStall ==
  /\ [][\A c \in Conns : FailureRecovered(c)]_vars
  /\ [](\A c \in Conns : NoStall(c))
  /\ \A c \in Solo : \A p \in 1..MaxPackets :
       (p \in DOMAIN conns[c].pc /\ conns[c].pc[p] \in {"queued", "granted"})
         ~> (p \in Range(conns[c].started) \/ conns[c].destroyed)

\* C18 witness: the first handler failed and its failure was emitted as
\* "error"; the packet that waited behind it is in its handler.
C18_Witness ==
  /\ conns["c1"].started = <<1, 2>>
  /\ conns["c1"].finished = <<1>>
  /\ conns["c1"].pc = <<"done", "handling">>
  /\ conns["c1"].errors = 1
  /\ ~conns["c1"].destroyed


\* The current difficulty is the sentinel or at least 1.
UnsetOrPositive(c) ==
  conns[c].difficulty = Unset \/ Leq(One, conns[c].difficulty)

\* A positive difficulty stays positive, and a sendJob whose pending
\* difficulty (one that is set, not the sentinel) is not positive throws and
\* leaves the current difficulty as it was.
StaysPositive(c) ==
  /\ Leq(One, conns[c].difficulty) => Leq(One, conns'[c].difficulty)
  /\ last'.op = "sendJob" /\ last'.obj = c /\ conns[c].nextDifficulty # Unset
       /\ ~Less(Zero, conns[c].nextDifficulty) =>
       /\ last'.ret = "throw"
       /\ conns'[c].difficulty = conns[c].difficulty

\* C19: under any sequence of setDifficulty, retarget and sendJob calls the
\* current difficulty is -1 or a positive integer; once positive it stays
\* positive; and a sendJob whose pending difficulty is not positive fails
\* without changing the current difficulty.
C19_DifficultyPositiveOnceSet ==
  /\ [](\A c \in Conns : UnsetOrPositive(c))
  /\ [][\A c \in Conns : StaysPositive(c)]_vars

\* C19 witness: a connection at difficulty 1000 was staged 0 and sent a job:
\* sendJob threw, and the difficulty is still 1000.
C19_Witness ==
  /\ last.op = "sendJob" /\ last.obj = "c1" /\ last.ret = "throw"
  /\ conns["c1"].nextDifficulty = Zero
  /\ conns["c1"].difficulty = Num(1000)


\* The last step was a retarget of c that staged a difficulty, the current
\* difficulty d being between 1 and the cap passed.
RetargetStaged(c) ==
  /\ last.op = "retarget" /\ last.obj = c /\ last.ret = "true"
  /\ Leq(One, conns[c].difficulty)
  /\ Leq(conns[c].difficulty, last.arg[1])

TargetElapsed(c) == (conns[c].submissions \div pm) * Minute
ActualElapsed(c) == last.arg[2] - conns[c].lastRetarget

\* d * targetElapsed / actualElapsed, actualElapsed clamped as retarget
\* clamps it, before >>> 0.
RateScaled(c) ==
  LET target == TargetElapsed(c)
      lo == IF 4 * ActualElapsed(c) < target THEN target \div 4
            ELSE ActualElapsed(c)
      actual == IF lo > target * 4 THEN target * 4 ELSE lo
  IN MulDiv(conns[c].difficulty, target, actual)

FollowsRate(c) ==
  /\ ActualElapsed(c) < TargetElapsed(c) =>
       Leq(conns[c].difficulty, conns[c].nextDifficulty)
  /\ ActualElapsed(c) > TargetElapsed(c) =>
       Leq(conns[c].nextDifficulty, conns[c].difficulty)

\* C20: at a decision point outside the band, with 1 <= d <= cap, shares
\* that arrived faster than targeted stage a difficulty >= d and shares that
\* arrived slower stage one <= d, for every d up to 2^32 - 1.
C20_RetargetFollowsRate ==
  \A c \in Conns : RetargetStaged(c) => FollowsRate(c)

\* The same where d * targetElapsed / actualElapsed is below 2^32.
C20_FollowsRateBelowWrap ==
  \A c \in Conns :
    RetargetStaged(c) /\ Less(RateScaled(c), <<Word, 0>>) => FollowsRate(c)

\* A difficulty staged below the current one, 2^30, after shares that
\* arrived faster than targeted.
C20_WrapWitness ==
  /\ RetargetStaged("c1")
  /\ ActualElapsed("c1") < TargetElapsed("c1")
  /\ conns["c1"].difficulty = Num(1073741824)
  /\ conns["c1"].nextDifficulty = One


\* What framing is to yield for a text, read one character at a time: the
\* lines that parse, in order, and the partial line after the last newline;
\* carriage returns are dropped, empty lines and lines that do not parse are
\* skipped.
RECURSIVE Framed(_, _, _, _)
Framed(text, i, cur, out) ==
  IF i > Len(text) THEN [packets |-> out, rest |-> cur]
  ELSE IF text[i] = "r" THEN Framed(text, i + 1, cur, out)
  ELSE IF text[i] = "n"
    THEN Framed(text, i + 1, <<>>,
                IF cur # <<>> /\ FromRawOk(cur) THEN Append(out, cur) ELSE out)
  ELSE Framed(text, i + 1, Append(cur, text[i]), out)

\* The stream, the part of it delivered so far, the packets emitted so far.
Stream == last.arg[1]
Delivered == SubSeq(last.arg[1], 1, last.arg[2])
Packets == last.arg[3]

\* However the bytes delivered so far were cut, the packets emitted and the
\* partial line kept are those of the text delivered, and the connection is
\* open.
FramedAsDelivered(c) ==
  LET f == Framed(DecoderWrite(<<>>, Delivered).text, 1, <<>>, <<>>)
  IN /\ Packets = f.packets
     /\ Len(conns[c].pc) = Len(Packets)
     /\ conns[c].recv = f.rest
     /\ ~conns[c].destroyed

\* C21: for a stream under the cap that holds no HTTP/1.1 marker, every way
\* of cutting it into feed() calls emits the same packets, keeps the trailing
\* partial line until its newline arrives, and skips a line that does not
\* parse without effect on the lines after it.
C21_FramingIndependentOfCuts ==
  ~HasHttp(Stream) => FramedAsDelivered("c1")

\* The same for the streams that hold no marker once their carriage returns
\* are removed.
C21_FramingIndependentNoMarkerAcrossCR ==
  ~HasHttp(StripCR(Stream)) => FramedAsDelivered("c1")

\* A stream cut inside a two-byte character and again inside its last line:
\* five "data" events, the one valid line emitted, the partial line kept.
C21_CutWitness ==
  /\ Stream = <<"a1", "m1", "m2", "a2", "r", "n", "a1", "x">>
  /\ last.arg[2] = Len(Stream)
  /\ conns["c1"].feeds = 5
  /\ Packets = << <<"a1", "e", "a2">> >>
  /\ conns["c1"].recv = <<"a1", "x">>

====
